---- MODULE Spec2Model ----
(***************************************************************************)
(* ListComponent (app-list) and CardComponent (app-card) of                *)
(* src/src/app/components/list/list.component.ts.                          *)
(*                                                                         *)
(* Both components are declarative: an @Input-only class plus a template   *)
(* made of *ngFor, *ngIf/else and [ngTemplateOutlet], checked with         *)
(* ChangeDetectionStrategy.OnPush.  One change-detection pass of the host  *)
(* is one action: it writes the inputs whose bound value changed identity, *)
(* and executes the component's template when the view is dirty.           *)
(***************************************************************************)
EXTENDS Integers, Sequences, FiniteSets

\* ---------------------------------------------------------------- bounds
MaxLen == 2         \* longest array bound to `data`
MaxTemplate == 2    \* template references are 1..MaxTemplate
MaxViews == 3       \* embedded views the list may instantiate in one run
MaxString == 2      \* string titles are the identities 1..MaxString
MaxCardViews == 3   \* embedded views the card may instantiate in one run

Null == 0           \* an unset (undefined/null) TemplateRef input
NoView == 0         \* an outlet that holds no embedded view

\* The items of the sample list in the parent's template, by their id.
Laptop == 4
Phone == 5
Items == {Laptop, Phone}
Templates == 1..MaxTemplate
Arrays == UNION {[1..k -> Items] : k \in 0..MaxLen}

VARIABLES
    data,           \* ListComponent.data (the array's current contents)
    dataDefined,    \* FALSE while `data` was never bound (undefined)
    itemTemplate,   \* ListComponent.itemTemplate, Null when unset
    dirty,          \* the OnPush view is marked for check
    rows,           \* the <li> views of *ngFor, in DOM order
    nextId,         \* identity of the next embedded view instantiated
    state,          \* "created", "rendered", "destroyed"
    mutated,        \* history: `data` was mutated in place since the last render
    last,           \* history: what the last step did
    prev,           \* history: the list before the last step
    title,          \* CardComponent.title
    cardDirty,      \* the card's OnPush view is marked for check
    card,           \* the card's rendered header / titleTemplateWrapper
    cardNextId,     \* identity of the next title view instantiated
    cardState,      \* "created", "rendered"
    cardLast        \* history: what the card's last step did

listVars == <<data, dataDefined, itemTemplate, dirty, rows, nextId, state,
              mutated, last, prev>>
cardVars == <<title, cardDirty, card, cardNextId, cardState, cardLast>>
vars == <<data, dataDefined, itemTemplate, dirty, rows, nextId, state,
          mutated, last, prev, title, cardDirty, card, cardNextId,
          cardState, cardLast>>

\* ------------------------------------------------------------- sequences
RemoveAt(s, j) == SubSeq(s, 1, j - 1) \o SubSeq(s, j + 1, Len(s))

\* ------------------------------------------------- ListComponent template
\* A row is one <li class="list-item"> of *ngFor: the item it iterates, and
\* the state of the ngTemplateOutlet inside it (the template it last
\* instantiated and the embedded view it holds).
NewRow(x) == [item |-> x, tpl |-> Null, view |-> NoView]

FirstRowOf(rs, x) ==
    IF \E j \in 1..Len(rs) : rs[j].item = x
    THEN CHOOSE j \in 1..Len(rs) :
            /\ rs[j].item = x
            /\ \A k \in 1..(j - 1) : rs[k].item # x
    ELSE 0

\* Mutant: rows are reused by position and keep the item they were created
\* for.
NgForOf_ByIndex(old, items) ==
    [i \in 1..Len(items) |-> IF i <= Len(old) THEN old[i] ELSE NewRow(items[i])]

\* Mutant: the rows no item claims are left in the list.
RECURSIVE NgForOf_NoTruncate(_, _)
NgForOf_NoTruncate(old, items) ==
    IF items = <<>> THEN old
    ELSE LET x == Head(items)
             j == FirstRowOf(old, x)
         IN IF j = 0
            THEN <<NewRow(x)>> \o NgForOf_NoTruncate(old, Tail(items))
            ELSE <<old[j]>> \o NgForOf_NoTruncate(RemoveAt(old, j), Tail(items))

\* Mutant: every pass adds a row per item to the rows already there.
NgForOf_Append(old, items) ==
    old \o [i \in 1..Len(items) |-> NewRow(items[i])]

\* Mutant: no row is kept, every pass builds the rows anew.
NgForOf_Recreate(old, items) ==
    [i \in 1..Len(items) |-> NewRow(items[i])]

\* *ngFor="let item of data": the rows after the iterable differ ran with
\* the default identity trackBy.  A row whose item is still in the array is
\* kept (moved to the item's position), a row is created for an item that
\* has none left, and the rows that remain unclaimed are destroyed.
RECURSIVE NgForOf(_, _)
NgForOf(old, items) ==
    IF items = <<>> THEN <<>>
    ELSE LET x == Head(items)
             j == FirstRowOf(old, x)
         IN IF j = 0
            THEN <<NewRow(x)>> \o NgForOf(old, Tail(items))
            ELSE <<old[j]>> \o NgForOf(RemoveAt(old, j), Tail(items))

\* Mutant: the outlet instantiates whatever it is given, an unset template
\* included.
NgTemplateOutlet_NoNullCheck(row, tpl, id) ==
    IF row.view # NoView /\ row.tpl = tpl THEN row
    ELSE [item |-> row.item, tpl |-> tpl, view |-> id]

\* [ngTemplateOutlet]="itemTemplate" [ngTemplateOutletContext]="{$implicit: item}"
\* of one row.  The context literal is rebuilt only when `item` changes, and
\* a kept row keeps its item, so the outlet acts only on a template change:
\* it removes the view it holds and creates one from the new template, if
\* there is a template.
NgTemplateOutlet(row, tpl, id) ==
    IF row.view # NoView /\ row.tpl = tpl THEN row
    ELSE IF tpl = Null THEN [item |-> row.item, tpl |-> Null, view |-> NoView]
    ELSE [item |-> row.item, tpl |-> tpl, view |-> id]

RECURSIVE Outlets(_, _, _)
Outlets(rs, tpl, id) ==
    IF rs = <<>> THEN <<>>
    ELSE LET r == NgTemplateOutlet(Head(rs), tpl, id)
             n == IF r.view = id THEN id + 1 ELSE id
         IN <<r>> \o Outlets(Tail(rs), tpl, n)

Created(rs, id) == Cardinality({i \in 1..Len(rs) : rs[i].view >= id})

\* The component as the template sees it.
Comp == [data |-> data, dataDefined |-> dataDefined,
         itemTemplate |-> itemTemplate, rows |-> rows, nextId |-> nextId]

\* Mutant: an empty array leaves the view as it was.
RefreshView_SkipEmpty(c) ==
    LET items == IF c.dataDefined THEN c.data ELSE <<>>
        rs == Outlets(NgForOf(c.rows, items), c.itemTemplate, c.nextId)
    IN IF items = <<>> THEN c
       ELSE [c EXCEPT !.rows = rs, !.nextId = c.nextId + Created(rs, c.nextId)]

\* Mutant: the iteration consumes the array it walks (shift()).
RefreshView_Consume(c) ==
    LET items == IF c.dataDefined THEN c.data ELSE <<>>
        rs == Outlets(NgForOf(c.rows, items), c.itemTemplate, c.nextId)
    IN [c EXCEPT !.rows = rs, !.nextId = c.nextId + Created(rs, c.nextId),
                 !.data = <<>>]

\* One execution of the template (update pass of the component view).
RefreshView(c) ==
    LET items == IF c.dataDefined THEN c.data ELSE <<>>
        rs == Outlets(NgForOf(c.rows, items), c.itemTemplate, c.nextId)
    IN [c EXCEPT !.rows = rs, !.nextId = c.nextId + Created(rs, c.nextId)]

\* ------------------------------------------------------------- list steps
Snapshot == [rows |-> rows, len |-> Len(data), mutated |-> mutated,
             state |-> state]

\* @Input() data / @Input() itemTemplate written by the host's bindings.
\* setData/setTpl say which bound value changed identity in this pass.
BindInputs(c, setData, S, setTpl, t) ==
    [c EXCEPT !.data = IF setData THEN S ELSE c.data,
              !.dataDefined = c.dataDefined \/ setData,
              !.itemTemplate = IF setTpl THEN t ELSE c.itemTemplate]

\* Mutant: writing `data` does not mark the view.
MustRefresh_IgnoreData(setData, setTpl) ==
    state = "created" \/ dirty \/ setTpl

\* OnPush: the view is refreshed when it is new, when an input was written,
\* or when it was marked for check.
MustRefresh(setData, setTpl) ==
    state = "created" \/ dirty \/ setData \/ setTpl

\* One change-detection pass over <app-list>.
Pass(setData, S, setTpl, t) ==
    LET b == BindInputs(Comp, setData, S, setTpl, t)
        r == MustRefresh(setData, setTpl)
        c == IF r THEN RefreshView(b) ELSE b
    IN /\ state # "destroyed"
       /\ c.nextId <= MaxViews + 1
       /\ data' = c.data
       /\ dataDefined' = c.dataDefined
       /\ itemTemplate' = c.itemTemplate
       /\ rows' = c.rows
       /\ nextId' = c.nextId
       /\ dirty' = IF r THEN FALSE ELSE dirty
       /\ state' = IF r THEN "rendered" ELSE state
       /\ mutated' = IF r THEN FALSE ELSE mutated
       /\ last' = [op |-> "pass", setData |-> setData, setTpl |-> setTpl,
                   render |-> r, inData |-> b.data, inTpl |-> b.itemTemplate]
       /\ prev' = Snapshot
       /\ UNCHANGED cardVars

\* The host binds a new array object to [data].
BindData(S) == Pass(TRUE, S, FALSE, Null)

\* The host binds another template reference (or none) to [itemTemplate].
BindTemplate(t) == t # itemTemplate /\ Pass(FALSE, <<>>, TRUE, t)

\* A pass in which no bound value changed identity.
Check == Pass(FALSE, <<>>, FALSE, Null)

Note(op) == [op |-> op, setData |-> FALSE, setTpl |-> FALSE, render |-> FALSE,
             inData |-> data', inTpl |-> itemTemplate']

\* The host mutates the bound array in place: data.push(x).
Push(x) ==
    /\ state # "destroyed" /\ dataDefined /\ Len(data) < MaxLen
    /\ data' = Append(data, x)
    /\ mutated' = TRUE
    /\ UNCHANGED <<dataDefined, itemTemplate, dirty, rows, nextId, state>>
    /\ last' = Note("push")
    /\ prev' = Snapshot
    /\ UNCHANGED cardVars

\* The host mutates the bound array in place: data.splice(i, 1).
Splice(i) ==
    /\ state # "destroyed" /\ dataDefined /\ i \in 1..Len(data)
    /\ data' = RemoveAt(data, i)
    /\ mutated' = TRUE
    /\ UNCHANGED <<dataDefined, itemTemplate, dirty, rows, nextId, state>>
    /\ last' = Note("splice")
    /\ prev' = Snapshot
    /\ UNCHANGED cardVars

\* An event handled inside a projected item view marks the views up to the
\* root for check, the list's view among them.
MarkForCheck ==
    /\ state = "rendered" /\ ~dirty
    /\ \E i \in 1..Len(rows) : rows[i].view # NoView
    /\ dirty' = TRUE
    /\ UNCHANGED <<data, dataDefined, itemTemplate, rows, nextId, state, mutated>>
    /\ last' = Note("mark")
    /\ prev' = Snapshot
    /\ UNCHANGED cardVars

\* Mutant: the rows survive the component.
Destroy_Leak ==
    /\ state # "destroyed"
    /\ state' = "destroyed"
    /\ UNCHANGED <<data, dataDefined, itemTemplate, dirty, rows, nextId, mutated>>
    /\ last' = Note("destroy")
    /\ prev' = Snapshot
    /\ UNCHANGED cardVars

\* The host removes <app-list>: the component view and all it holds go.
Destroy ==
    /\ state # "destroyed"
    /\ state' = "destroyed"
    /\ rows' = <<>>
    /\ UNCHANGED <<data, dataDefined, itemTemplate, dirty, nextId, mutated>>
    /\ last' = Note("destroy")
    /\ prev' = Snapshot
    /\ UNCHANGED cardVars

ListInit ==
    /\ data = <<>>
    /\ dataDefined = FALSE
    /\ itemTemplate = Null
    /\ dirty = TRUE
    /\ rows = <<>>
    /\ nextId = 1
    /\ state = "created"
    /\ mutated = FALSE
    /\ last = [op |-> "new", setData |-> FALSE, setTpl |-> FALSE,
               render |-> FALSE, inData |-> <<>>, inTpl |-> Null]
    /\ prev = [rows |-> <<>>, len |-> 0, mutated |-> FALSE, state |-> "created"]

\* ------------------------------------------------- CardComponent template
Unset == [type |-> "undefined", val |-> 0]
StringTitles == {[type |-> "string", val |-> s] : s \in 1..MaxString}
TemplateTitles == {[type |-> "object", val |-> t] : t \in Templates}
Titles == {Unset} \cup StringTitles \cup TemplateTitles

\* Mutant: any set title counts as a string.
isTitleAString_Truthy(c) == c.title.type # "undefined"

\* isTitleAString = () => typeof this.title == 'string'
isTitleAString(c) == c.title.type = "string"

NoHeader == [shown |-> FALSE, text |-> 0]
NoWrapper == [shown |-> FALSE, tpl |-> Null, view |-> NoView]

\* <ng-container [ngTemplateOutlet]="title"> inside #titleTemplateWrapper.
TitleOutlet(w, t, id) ==
    LET tpl == IF t.type = "object" THEN t.val ELSE Null
    IN IF w.view # NoView /\ w.tpl = tpl THEN [w EXCEPT !.shown = TRUE]
       ELSE IF tpl = Null THEN [shown |-> TRUE, tpl |-> Null, view |-> NoView]
       ELSE [shown |-> TRUE, tpl |-> tpl, view |-> id]

\* <header *ngIf="isTitleAString(); else titleTemplateWrapper">{{ title }}</header>
RefreshCard(c) ==
    IF isTitleAString(c)
    THEN [c EXCEPT !.header = [shown |-> TRUE, text |-> c.title.val],
                   !.wrapper = NoWrapper]
    ELSE LET w == TitleOutlet(c.wrapper, c.title, c.nextId)
         IN [c EXCEPT !.header = NoHeader,
                      !.wrapper = w,
                      !.nextId = IF w.view = c.nextId THEN c.nextId + 1
                                 ELSE c.nextId]

CardComp == [title |-> title, header |-> card.header, wrapper |-> card.wrapper,
             nextId |-> cardNextId]

\* One change-detection pass over <app-card>; setTitle says whether the
\* value bound to [title] changed identity.
CardPass(setTitle, t) ==
    LET b == [CardComp EXCEPT !.title = IF setTitle THEN t ELSE title]
        r == cardState = "created" \/ cardDirty \/ setTitle
        c == IF r THEN RefreshCard(b) ELSE b
    IN /\ c.nextId <= MaxCardViews + 1
       /\ title' = c.title
       /\ card' = [header |-> c.header, wrapper |-> c.wrapper]
       /\ cardNextId' = c.nextId
       /\ cardDirty' = IF r THEN FALSE ELSE cardDirty
       /\ cardState' = IF r THEN "rendered" ELSE cardState
       /\ cardLast' = [op |-> "pass", render |-> r, before |-> card]
       /\ UNCHANGED listVars

BindTitle(t) == t # title /\ CardPass(TRUE, t)

CardCheck == CardPass(FALSE, Unset)

\* An event handled inside the projected title view or the projected
\* content marks the card's view for check.
CardMarkForCheck ==
    /\ cardState = "rendered" /\ ~cardDirty
    /\ cardDirty' = TRUE
    /\ cardLast' = [op |-> "mark", render |-> FALSE, before |-> card]
    /\ UNCHANGED <<title, card, cardNextId, cardState>>
    /\ UNCHANGED listVars

CardInit ==
    /\ title = Unset
    /\ cardDirty = TRUE
    /\ card = [header |-> NoHeader, wrapper |-> NoWrapper]
    /\ cardNextId = 1
    /\ cardState = "created"
    /\ cardLast = [op |-> "new", render |-> FALSE,
                   before |-> [header |-> NoHeader, wrapper |-> NoWrapper]]

\* ------------------------------------------------------------ properties
Range(s) == {s[i] : i \in 1..Len(s)}
Count(s, x) == Cardinality({i \in 1..Len(s) : s[i] = x})
Min(a, b) == IF a < b THEN a ELSE b
HasView(r) == r.view # NoView
Views(rs) == {i \in 1..Len(rs) : HasView(rs[i])}
ViewIds(rs) == {rs[i].view : i \in Views(rs)}
ViewsOf(rs, x) == {rs[i].view : i \in {k \in Views(rs) : rs[k].item = x}}

\* The last step was a change-detection pass that executed the template.
Rendered == last.op = "pass" /\ last.render

\* The output shows the current inputs: one row per item, in order, each
\* holding a view of the current template bound to its item, or no view
\* when there is no template.
OutputMatches ==
    /\ Len(rows) = Len(data)
    /\ \A i \in 1..Len(rows) :
          /\ rows[i].item = data[i]
          /\ rows[i].tpl = itemTemplate
          /\ HasView(rows[i]) <=> itemTemplate # Null

\* What an observer sees of the output: per position, the item and the
\* template of the view shown there.
Output(rs) == [i \in 1..Len(rs) |-> <<rs[i].item, rs[i].tpl, HasView(rs[i])>>]

\* C1: after a render with a template present, the output holds exactly
\* Len(data) views, all distinct instances, and the view at position i is an
\* instance of itemTemplate whose $implicit is data[i].
C1_OneViewPerItem ==
    (Rendered /\ dataDefined /\ itemTemplate # Null) =>
        /\ Len(rows) = Len(data)
        /\ Cardinality(ViewIds(rows)) = Len(data)
        /\ \A i \in 1..Len(data) :
              /\ HasView(rows[i])
              /\ rows[i].item = data[i]
              /\ rows[i].tpl = itemTemplate

\* C1 witness: a list with a repeated item was rendered after another list.
C1_Witness ==
    /\ Rendered /\ last.setData /\ itemTemplate # Null
    /\ Len(data) = 2 /\ data[1] = data[2]
    /\ prev.rows # <<>>
    /\ Cardinality(ViewIds(rows)) = 2

\* C2: after a render with the template unset no view exists, whatever the
\* array holds, and the pass ended normally (rendered, no longer dirty).
C2_NoTemplateNoViews ==
    (Rendered /\ itemTemplate = Null) =>
        /\ Views(rows) = {}
        /\ state = "rendered"
        /\ ~dirty

\* C2 witness: a non-empty array rendered with the template unset.
C2_Witness ==
    /\ Rendered /\ itemTemplate = Null
    /\ dataDefined /\ Len(data) = MaxLen
    /\ Len(rows) = MaxLen

\* C3: after a render of an empty array there is no row and no view, with
\* or without a template.
C3_EmptyArrayNoViews ==
    (Rendered /\ dataDefined /\ data = <<>>) => rows = <<>>

\* C3 witness: an empty array rendered, with a template set, over an output
\* that held views.
C3_Witness ==
    /\ Rendered /\ dataDefined /\ data = <<>>
    /\ itemTemplate # Null
    /\ Views(prev.rows) # {}

\* C4: a render that follows a render with neither input written nor the
\* array mutated in between leaves the output as it was.
C4_Idempotent ==
    (/\ Rendered /\ prev.state = "rendered"
     /\ ~last.setData /\ ~last.setTpl /\ ~prev.mutated)
    => Output(rows) = Output(prev.rows)

\* C4 witness: such a second render of a list of MaxLen views.
C4_Witness ==
    /\ Rendered /\ prev.state = "rendered"
    /\ ~last.setData /\ ~last.setTpl /\ ~prev.mutated
    /\ Cardinality(Views(rows)) = MaxLen

\* C5 as claimed: after every change-detection pass the output shows the
\* current items and template, in-place mutations of the array included.
C5_AlwaysCurrent == last.op = "pass" => OutputMatches

\* C5 amended: after a change-detection pass the output shows the current
\* inputs unless the array was mutated in place since the last render; an
\* input written by the pass is always rendered by it.
C5_CurrentUnlessMutated ==
    /\ (last.op = "pass" /\ ~mutated) => OutputMatches
    /\ (last.op = "pass" /\ (last.setData \/ last.setTpl)) => OutputMatches

\* C5 witness: a new array bound over an output made stale by a mutation.
C5_Witness ==
    /\ last.op = "pass" /\ last.setData
    /\ prev.mutated /\ prev.rows # <<>>
    /\ data # <<>>
    /\ OutputMatches

\* C6 as claimed: a render after an input was replaced keeps no view
\* instance that existed before.
C6_AllViewsFresh ==
    (Rendered /\ (last.setData \/ last.setTpl)) =>
        ViewIds(rows) \cap ViewIds(prev.rows) = {}

\* C6 amended: replacing the template discards every view; replacing only
\* the array keeps, per item, as many of its views as the new array has
\* occurrences of it (the same instances, bound as before), discards the
\* others and instantiates views only for the occurrences left over.
C6_KeptByIdentity ==
    (Rendered /\ (last.setData \/ last.setTpl)) =>
        /\ last.setTpl => ViewIds(rows) \cap ViewIds(prev.rows) = {}
        /\ ~last.setTpl => \A x \in Items :
              Cardinality(ViewsOf(rows, x) \cap ViewIds(prev.rows))
                  = Min(Cardinality(ViewsOf(prev.rows, x)), Count(data, x))
        /\ \A x \in Items :
              ViewsOf(rows, x) \cap ViewIds(prev.rows) \subseteq ViewsOf(prev.rows, x)

\* C6 witness: a new array rendered in which one view is kept, one is new
\* and one of the old views is gone.
C6_Witness ==
    /\ Rendered /\ last.setData /\ ~last.setTpl
    /\ ViewIds(rows) \cap ViewIds(prev.rows) # {}
    /\ ViewIds(rows) \ ViewIds(prev.rows) # {}
    /\ ViewIds(prev.rows) \ ViewIds(rows) # {}

\* C7: after `data` is replaced by a shorter array there is one row per item
\* of the new array, in its order, and with a template set exactly
\* Len(data) views.
C7_ShorterArray ==
    (last.op = "pass" /\ last.setData /\ Len(data) < prev.len) =>
        /\ Len(rows) = Len(data)
        /\ \A i \in 1..Len(data) : rows[i].item = data[i]
        /\ itemTemplate # Null =>
              /\ Cardinality(ViewIds(rows)) = Len(data)
              /\ \A i \in 1..Len(data) : HasView(rows[i])

\* C7 witness: MaxLen views cut down to fewer, not to none.
C7_Witness ==
    /\ last.op = "pass" /\ last.setData /\ Len(data) < prev.len
    /\ itemTemplate # Null
    /\ Cardinality(Views(prev.rows)) = MaxLen
    /\ Cardinality(Views(rows)) = Len(data)
    /\ Len(data) > 0

\* C8: a render leaves `data` and `itemTemplate` as the bindings set them.
C8_InputsUntouched ==
    Rendered => (data = last.inData /\ itemTemplate = last.inTpl)

\* C8 witness: a render that instantiated views for a full array.
C8_Witness ==
    /\ Rendered /\ Len(data) = MaxLen
    /\ ViewIds(rows) \ ViewIds(prev.rows) # {}

C10_OneTitleRendering ==
    /\ ~(card.header.shown /\ card.wrapper.shown)
    /\ cardState = "rendered" =>
          /\ card.header.shown # card.wrapper.shown
          /\ title.type = "string" =>
                /\ card.header = [shown |-> TRUE, text |-> title.val]
                /\ card.wrapper = NoWrapper
          /\ title.type = "object" =>
                /\ card.header = NoHeader
                /\ card.wrapper.shown
                /\ card.wrapper.tpl = title.val
                /\ card.wrapper.view # NoView
          /\ title.type = "undefined" =>
                /\ card.header = NoHeader
                /\ card.wrapper = [shown |-> TRUE, tpl |-> Null, view |-> NoView]

\* C10 witness: a string title replaced by a template.
C10_Witness ==
    /\ cardLast.op = "pass" /\ cardLast.render
    /\ cardLast.before.header.shown
    /\ title.type = "object"
    /\ card.wrapper.view # NoView


\* ---------------------------------------------------------- specifications
Init == ListInit /\ CardInit

Next ==
    \/ \E S \in Arrays : BindData(S)
    \/ \E t \in Templates \cup {Null} : BindTemplate(t)
    \/ Check
    \/ \E x \in Items : Push(x)
    \/ \E i \in 1..MaxLen : Splice(i)
    \/ MarkForCheck
    \/ Destroy

Spec == Init /\ [][Next]_vars

CardNext ==
    \/ \E t \in Titles : BindTitle(t)
    \/ CardCheck
    \/ CardMarkForCheck

CardSpec == Init /\ [][CardNext]_vars

====
